---- MODULE Spec2Model ----
(***************************************************************************)
(* Model of the netflixapp views (views.py) over the netflixapp data model *)
(* (models.py).  Every request is one action: the decorator's dispatch     *)
(* followed by the whole body of the view, its store reads and writes, its *)
(* outbound metadata request, its log records and the response it returns. *)
(* The store is the Django default (autocommit): every ORM write is        *)
(* committed when the statement returns.                                   *)
(***************************************************************************)
EXTENDS Naturals, Sequences, FiniteSets, TLC

VARIABLES
    profiles,       \* table Profile: sequence of rows, in storage (pk) order
    user_profiles,  \* join table of CustomUser.profiles: set of <<account, Profile pk>>
    movies,         \* table Movie
    videos,         \* table Video
    movie_video,    \* join table of Movie.video: set of <<Movie pk, Video pk>>
    creator,        \* history: per Profile pk, the account whose submission was
                    \* answered with the success redirect, or NoAccount
    request,        \* the request handled last
    response        \* what the view answered to it

vars == <<profiles, user_profiles, movies, videos, movie_video, creator, request, response>>

----------------------------------------------------------------------------
(* Bounds and input domains *)

MaxProfiles == 2

Accounts == {"a1", "a2"}
Anon == "anonymous"
NoAccount == "nobody"
Users == Accounts \cup {Anon}

ProfileUUIDs == {"p1", "p2", "p3"}
MovieUUIDs == {"m1", "m2", "m3", "m4"}

\* A submitted name is represented by its length; 0 is a missing name.
NameMaxLength == 200
NameLens == {0, NameMaxLength, NameMaxLength + 1}

AGE_CHOICES == {"All", "Kids"}
AgeInputs == AGE_CHOICES \cup {"Adult"}

\* Environment failures a request can meet, named in the actions: "db_read"
\* (a store read raises), "db_create" (the INSERT of the Profile raises),
\* "db_add" (the INSERT into the join table raises), "render" (the template
\* render raises), "none".

\* What the metadata provider does with the single outbound request.
UpstreamKinds == {"ok_search", "ok_no_search", "ok_not_object", "unparseable",
                  "timeout", "transport", "http_error"}

\* Exception class Response.json() raises on an unparseable body: a
\* RequestException subclass in recent releases of the HTTP library, a plain
\* ValueError in older ones.
JsonErrors == {"RequestException", "ValueError"}

SearchResults == <<"tt1", "tt2">>

----------------------------------------------------------------------------
(* Responses *)

NoCtx == [empty |-> TRUE]

Resp(kind, target, context, logs, upstream, reads, writes) ==
    [kind |-> kind, target |-> target, context |-> context, logs |-> logs,
     upstream |-> upstream, reads |-> reads, writes |-> writes]

Redirect(to, logs, upstream, reads, writes) ==
    Resp("redirect", to, NoCtx, logs, upstream, reads, writes)

\* render(): the page, or the exception a failing render raises.
Render(template, context, logs, upstream, reads, writes) ==
    Resp("render", template, context, logs, upstream, reads, writes)

Raise(exc, logs, upstream, reads, writes) ==
    Resp("exception", exc, NoCtx, logs, upstream, reads, writes)

\* What a view returns: the response and the store it leaves behind.
Result(resp, profs, ups) ==
    [resp |-> resp, profiles |-> profs, user_profiles |-> ups]

Unchanged(resp) == Result(resp, profiles, user_profiles)

----------------------------------------------------------------------------
(* Store queries *)

\* Model.objects.get(uuid=id) on a table: the row's pk, or the exception raised.
ObjectsGet(table, id) ==
    LET hits == {i \in 1..Len(table) : table[i].uuid = id}
    IN  IF hits = {} THEN [exc |-> "DoesNotExist", pk |-> 0]
        ELSE IF Cardinality(hits) > 1 THEN [exc |-> "MultipleObjectsReturned", pk |-> 0]
        ELSE [exc |-> "none", pk |-> CHOOSE i \in hits : TRUE]

\* request.user.profiles.all(): the Profile rows joined to the account.
UserProfilesAll(user) ==
    SelectSeq(profiles, LAMBDA p : <<user, p.pk>> \in user_profiles)

\* Mutant: the ownership test is dropped.
ProfileInUserProfiles_Any(user, pk) == TRUE

\* profile not in request.user.profiles.all()
ProfileInUserProfiles(user, pk) ==
    \E i \in 1..Len(UserProfilesAll(user)) : UserProfilesAll(user)[i].pk = pk

\* Mutant: Video.objects.values() instead of the Movie's own videos.
VideoValues_AllVideos(mpk) == videos

\* movie.video.values(): one plain record per Video joined to the Movie.
VideoValues(mpk) ==
    SelectSeq(videos, LAMBDA v : <<mpk, v.pk>> \in movie_video)

\* Mutant: no unique constraint on Profile.uuid.
UuidTaken_Never(uuid) == FALSE

\* unique=True on Profile.uuid: the INSERT of a row with a taken uuid fails.
UuidTaken(uuid) ==
    \E i \in 1..Len(profiles) : profiles[i].uuid = uuid

\* Mutant: the view is not wrapped in login_required.
IsAuthenticated_Always(user) == TRUE

\* login_required: the view body runs only for an authenticated user.
IsAuthenticated(user) == user # Anon

\* ProfileForm(request.POST or None).is_valid()
FormIsValid(form) ==
    /\ form.name >= 1
    /\ form.name <= NameMaxLength
    /\ form.age_limit \in AGE_CHOICES

----------------------------------------------------------------------------
(* Views *)

\* login_required on dispatch: redirect to the login page, view body not run.
Dispatch(user, result) ==
    IF IsAuthenticated(user) THEN result
    ELSE Unchanged(Redirect("login", <<>>, 0, 0, 0))

\* ProfileList.get
ProfileListGet(user, fault) ==
    IF fault = "db_read" THEN Unchanged(Raise("DatabaseError", <<>>, 0, 1, 0))
    ELSE IF fault = "render" THEN Unchanged(Raise("TemplateError", <<>>, 0, 1, 0))
    ELSE Unchanged(Render("profilelist.html", [profiles |-> UserProfilesAll(user)],
                          <<>>, 0, 1, 0))

\* ProfileCreate.get
ProfileCreateGet(user, fault) ==
    IF fault = "render" THEN Unchanged(Raise("TemplateError", <<>>, 0, 0, 0))
    ELSE Unchanged(Render("profilecreate.html", [form |-> "unbound", errors |-> "none"],
                          <<>>, 0, 0, 0))

\* The final render of ProfileCreate.post (line 84), outside the try block.
FormPage(errors, logs, writes, fault) ==
    IF fault = "render" THEN Raise("TemplateError", logs, 0, 0, writes)
    ELSE Render("profilecreate.html", [form |-> "bound", errors |-> errors],
                logs, 0, 0, writes)

\* Lines 73-82 of ProfileCreate.post: create the Profile, attach it to the
\* account; uuid is the value uuid.uuid4 draws for the new row.
CreateAndAttach(user, form, uuid, fault) ==
    IF fault = "db_create" \/ UuidTaken(uuid)
    THEN \* Profile.objects.create raises: nothing inserted
         Unchanged(FormPage("non_field", <<"error">>, 0, fault))
    ELSE LET pk == Len(profiles) + 1
             row == [pk |-> pk, name |-> form.name,
                     age_limit |-> form.age_limit, uuid |-> uuid]
             created == Append(profiles, row)
         IN  IF fault = "db_add"
             THEN \* request.user.profiles.add raises after the committed INSERT
                  Result(FormPage("non_field", <<"error">>, 1, fault),
                         created, user_profiles)
             ELSE Result(Redirect("profile-list", <<>>, 0, 0, 2),
                         created, user_profiles \cup {<<user, pk>>})

\* Mutant: the submission is processed without asking form.is_valid().
ProfileCreatePost_Unvalidated(user, form, uuid, fault) ==
    CreateAndAttach(user, form, uuid, fault)

\* ProfileCreate.post
ProfileCreatePost(user, form, uuid, fault) ==
    IF ~FormIsValid(form)
    THEN Unchanged(FormPage("field", <<>>, 0, fault))
    ELSE CreateAndAttach(user, form, uuid, fault)

\* except Exception of MovieList.get, MovieDetail.get and PlayMovie.get
Unexpected(logs, upstream, reads) ==
    Redirect("profile-list", Append(logs, "error"), upstream, reads, 0)

\* A render inside the outer try block: a failing render reaches except Exception.
RenderOrUnexpected(template, context, logs, upstream, reads, fault) ==
    IF fault = "render" THEN Unexpected(logs, upstream, reads)
    ELSE Render(template, context, logs, upstream, reads, 0)

\* Lines 121-139 of MovieList.get: the outbound request and its handlers.
FetchMovies(profile_id, upstream, jsonerr, fault, reads) ==
    LET failure ==
            RenderOrUnexpected("movielist.html",
                [error |-> "Unable to fetch movies at this time.",
                 profile_id |-> profile_id],
                <<"error">>, 1, reads, fault)
        listing(found) ==
            RenderOrUnexpected("movielist.html",
                [movies |-> found, profile_id |-> profile_id],
                <<>>, 1, reads, fault)
    IN  CASE upstream \in {"timeout", "transport", "http_error"} -> failure
          [] upstream = "unparseable" ->
                IF jsonerr = "RequestException" THEN failure
                ELSE Unexpected(<<>>, 1, reads)
          [] upstream = "ok_not_object" -> Unexpected(<<>>, 1, reads)
          [] upstream = "ok_no_search" -> listing(<<>>)
          [] upstream = "ok_search" -> listing(SearchResults)

\* MovieList.get
MovieListGet(user, profile_id, upstream, jsonerr, fault) ==
    LET got == ObjectsGet(profiles, profile_id)
    IN  IF fault = "db_read" THEN Unchanged(Unexpected(<<>>, 0, 1))
        ELSE IF got.exc = "DoesNotExist"
        THEN Unchanged(Redirect("profile-list", <<"warning">>, 0, 1, 0))
        ELSE IF got.exc # "none" THEN Unchanged(Unexpected(<<>>, 0, 1))
        ELSE IF ~ProfileInUserProfiles(user, got.pk)
        THEN Unchanged(Redirect("profile-list", <<>>, 0, 2, 0))
        ELSE Unchanged(FetchMovies(profile_id, upstream, jsonerr, fault, 2))

\* Mutant: the detail page is gated by the age-category of the account's
\* profiles: a Title for All needs an owned Profile for All.
MovieDetailGet_AgeGated(user, movie_id, fault) ==
    LET got == ObjectsGet(movies, movie_id)
    IN  IF fault = "db_read" THEN Unchanged(Unexpected(<<>>, 0, 1))
        ELSE IF got.exc = "DoesNotExist"
        THEN Unchanged(Redirect("profile-list", <<"warning">>, 0, 1, 0))
        ELSE IF got.exc # "none" THEN Unchanged(Unexpected(<<>>, 0, 1))
        ELSE IF /\ movies[got.pk].age_limit = "All"
                /\ \A i \in 1..Len(UserProfilesAll(user)) :
                       UserProfilesAll(user)[i].age_limit # "All"
        THEN Unchanged(Redirect("profile-list", <<>>, 0, 2, 0))
        ELSE Unchanged(RenderOrUnexpected("moviedetail.html",
                           [movie |-> movies[got.pk]], <<>>, 0, 1, fault))

\* MovieDetail.get
MovieDetailGet(user, movie_id, fault) ==
    LET got == ObjectsGet(movies, movie_id)
    IN  IF fault = "db_read" THEN Unchanged(Unexpected(<<>>, 0, 1))
        ELSE IF got.exc = "DoesNotExist"
        THEN Unchanged(Redirect("profile-list", <<"warning">>, 0, 1, 0))
        ELSE IF got.exc # "none" THEN Unchanged(Unexpected(<<>>, 0, 1))
        ELSE Unchanged(RenderOrUnexpected("moviedetail.html",
                           [movie |-> movies[got.pk]], <<>>, 0, 1, fault))

\* Mutant: the handlers are in the wrong order, except Exception first.
PlayMovieGet_CatchAllFirst(user, movie_id, fault) ==
    LET got == ObjectsGet(movies, movie_id)
    IN  IF fault = "db_read" \/ got.exc # "none"
        THEN Unchanged(Unexpected(<<>>, 0, 1))
        ELSE Unchanged(RenderOrUnexpected("playmovie.html",
                           [movie |-> VideoValues(got.pk)], <<>>, 0, 2, fault))

\* PlayMovie.get
PlayMovieGet(user, movie_id, fault) ==
    LET got == ObjectsGet(movies, movie_id)
    IN  IF fault = "db_read" THEN Unchanged(Unexpected(<<>>, 0, 1))
        ELSE IF got.exc = "DoesNotExist"
        THEN Unchanged(Redirect("profile-list", <<"warning">>, 0, 1, 0))
        ELSE IF got.exc # "none" THEN Unchanged(Unexpected(<<>>, 0, 1))
        ELSE Unchanged(RenderOrUnexpected("playmovie.html",
                           [movie |-> VideoValues(got.pk)], <<>>, 0, 2, fault))

----------------------------------------------------------------------------
(* The state machine *)

NoForm == [name |-> 0, age_limit |-> "-"]

Req(view, user, id, form, upstream, jsonerr, fault) ==
    [view |-> view, user |-> user, id |-> id, form |-> form,
     upstream |-> upstream, jsonerr |-> jsonerr, fault |-> fault]

\* The catalog the administrator has entered: three Videos and three Movies
\* with two, zero and one attached Videos; uuid m4 names no Movie.
InitVideos ==
    << [pk |-> 1, title |-> "v1", file |-> "movies/v1.mp4"],
       [pk |-> 2, title |-> "v2", file |-> "movies/v2.mp4"],
       [pk |-> 3, title |-> "v3", file |-> "movies/v3.mp4"] >>

InitMovies ==
    << [pk |-> 1, uuid |-> "m1", title |-> "t1", type |-> "single", age_limit |-> "All"],
       [pk |-> 2, uuid |-> "m2", title |-> "t2", type |-> "seasonal", age_limit |-> "Kids"],
       [pk |-> 3, uuid |-> "m3", title |-> "t3", type |-> "single", age_limit |-> "Kids"] >>

InitMovieVideo == {<<1, 1>>, <<1, 3>>, <<3, 2>>}

Idle == Req("none", Anon, "-", NoForm, "-", "-", "none")
NoResponse == Redirect("none", <<>>, 0, 0, 0)

Init ==
    /\ profiles = <<>>
    /\ user_profiles = {}
    /\ movies = InitMovies
    /\ videos = InitVideos
    /\ movie_video = InitMovieVideo
    /\ creator = <<>>
    /\ request = Idle
    /\ response = NoResponse

\* One request handled from dispatch to response.  Requests are handled one
\* after the other: the views share nothing but the store.
Handle(req, result) ==
    /\ request = Idle
    /\ request' = req
    /\ response' = result.resp
    /\ profiles' = result.profiles
    /\ user_profiles' = result.user_profiles
    /\ creator' = IF Len(result.profiles) > Len(profiles)
                  THEN Append(creator, IF result.resp.kind = "redirect"
                                       THEN req.user ELSE NoAccount)
                  ELSE creator
    /\ UNCHANGED <<movies, videos, movie_video>>

ProfileListRequest ==
    \E u \in Users, f \in {"none", "db_read", "render"} :
        Handle(Req("ProfileList", u, "-", NoForm, "-", "-", f),
               Dispatch(u, ProfileListGet(u, f)))

ProfileCreateGetRequest ==
    \E u \in Users, f \in {"none", "render"} :
        Handle(Req("ProfileCreateGet", u, "-", NoForm, "-", "-", f),
               Dispatch(u, ProfileCreateGet(u, f)))

ProfileCreatePostRequest ==
    /\ Len(profiles) < MaxProfiles
    /\ \E u \in Users, n \in NameLens, a \in AgeInputs, id \in ProfileUUIDs,
          f \in {"none", "db_create", "db_add", "render"} :
          LET form == [name |-> n, age_limit |-> a]
          IN  Handle(Req("ProfileCreatePost", u, "-", form, "-", "-", f),
                     Dispatch(u, ProfileCreatePost(u, form, id, f)))

MovieListRequest ==
    \E u \in Users, id \in ProfileUUIDs, up \in UpstreamKinds, je \in JsonErrors,
       f \in {"none", "db_read", "render"} :
        /\ (up # "unparseable" => je = "RequestException")
        /\ Handle(Req("MovieList", u, id, NoForm, up, je, f),
                  Dispatch(u, MovieListGet(u, id, up, je, f)))

MovieDetailRequest ==
    \E u \in Users, id \in MovieUUIDs, f \in {"none", "db_read", "render"} :
        Handle(Req("MovieDetail", u, id, NoForm, "-", "-", f),
               Dispatch(u, MovieDetailGet(u, id, f)))

PlayMovieRequest ==
    \E u \in Users, id \in MovieUUIDs, f \in {"none", "db_read", "render"} :
        Handle(Req("PlayMovie", u, id, NoForm, "-", "-", f),
               Dispatch(u, PlayMovieGet(u, id, f)))

\* The response has gone out to the client; the next request can come in.
Complete ==
    /\ request # Idle
    /\ request' = Idle
    /\ response' = NoResponse
    /\ UNCHANGED <<profiles, user_profiles, movies, videos, movie_video, creator>>

Next ==
    \/ ProfileListRequest
    \/ ProfileCreateGetRequest
    \/ ProfileCreatePostRequest
    \/ MovieListRequest
    \/ MovieDetailRequest
    \/ PlayMovieRequest
    \/ Complete

Spec == Init /\ [][Next]_vars

----------------------------------------------------------------------------
(* Properties *)

Authenticated == request.user \in Accounts

ProtectedViews ==
    {"ProfileList", "ProfileCreateGet", "ProfileCreatePost",
     "MovieList", "MovieDetail", "PlayMovie"}

\* The rows of a table carrying the requested uuid.
Named(table) == {i \in 1..Len(table) : table[i].uuid = request.id}

Owners(pk) == {a \in Accounts : <<a, pk>> \in user_profiles}

RedirectedTo(to) == response.kind = "redirect" /\ response.target = to

Rendered(template) == response.kind = "render" /\ response.target = template

\* C1: a request without an authenticated session to any of the six protected
\* operations is answered with a redirect to the login page, having read and
\* written no store record, logged nothing and issued no upstream request; the
\* store is the same after it as before.
C1_AnonymousGetsLoginRedirect ==
    /\ [](request.view \in ProtectedViews /\ request.user = Anon
            => /\ RedirectedTo("login")
               /\ response.reads = 0 /\ response.writes = 0
               /\ response.upstream = 0 /\ response.logs = <<>>)
    /\ [][request'.view \in ProtectedViews /\ request'.user = Anon
            => UNCHANGED <<profiles, user_profiles, movies, videos, movie_video>>]_vars

C1_Witness ==
    /\ request.view = "ProfileCreatePost" /\ request.user = Anon
    /\ request.form.name = NameMaxLength /\ request.form.age_limit = "Kids"
    /\ request.fault = "none"
    /\ RedirectedTo("login")
    /\ Len(profiles) = 1

\* C2: Movie List requested by an authenticated account for an existing
\* Profile the account does not own ends in a redirect to Profile Listing
\* with no upstream request issued.
C2_ForeignProfileRedirectsWithoutFetch ==
    (/\ request.view = "MovieList" /\ Authenticated
     /\ \E i \in Named(profiles) : request.user \notin Owners(i))
        => RedirectedTo("profile-list") /\ response.upstream = 0

C2_Witness ==
    /\ request.view = "MovieList" /\ Authenticated
    /\ request.fault = "none" /\ request.upstream = "ok_search"
    /\ \E i \in Named(profiles) : Owners(i) = Accounts \ {request.user}
    /\ RedirectedTo("profile-list") /\ response.upstream = 0

\* C3: an authenticated request whose Profile uuid (Movie List) or Title uuid
\* (Title Detail, Playback) the store lookup finds absent is redirected to
\* Profile Listing with exactly one log record, a warning, and no upstream
\* request.
C3_AbsentIdRedirectsWithOneWarning ==
    /\ (request.view = "MovieList" /\ Authenticated /\ request.fault # "db_read"
        /\ Named(profiles) = {})
          => /\ RedirectedTo("profile-list")
             /\ response.logs = <<"warning">> /\ response.upstream = 0
    /\ (request.view \in {"MovieDetail", "PlayMovie"} /\ Authenticated
        /\ request.fault # "db_read" /\ Named(movies) = {})
          => /\ RedirectedTo("profile-list")
             /\ response.logs = <<"warning">> /\ response.upstream = 0

C3_Witness ==
    /\ request.view = "PlayMovie" /\ Authenticated /\ request.id = "m4"
    /\ request.fault = "none"
    /\ response.logs = <<"warning">> /\ RedirectedTo("profile-list")

\* C4: a Profile Creation submission by an authenticated account with a name
\* longer than 200 characters or missing, or an age-category outside
\* {All, Kids}, creates no Profile, changes no account's owned-profile set and,
\* when the page renders, redisplays the form with field errors.
C4_InvalidSubmissionChangesNothing ==
    [][(/\ request'.view = "ProfileCreatePost" /\ request'.user \in Accounts
        /\ \/ request'.form.name > 200
           \/ request'.form.name = 0
           \/ request'.form.age_limit \notin {"All", "Kids"})
          => /\ profiles' = profiles
             /\ user_profiles' = user_profiles
             /\ response'.kind # "redirect"
             /\ (request'.fault # "render"
                    => /\ response'.kind = "render"
                       /\ response'.target = "profilecreate.html"
                       /\ response'.context.errors = "field")]_vars

C4_Witness ==
    /\ request.view = "ProfileCreatePost" /\ Authenticated
    /\ request.form.name = NameMaxLength + 1 /\ request.form.age_limit = "All"
    /\ request.fault = "none"
    /\ Rendered("profilecreate.html") /\ response.context.errors = "field"
    /\ Len(profiles) = 1 /\ Owners(1) # {}

\* C5 (as claimed): no Profile Creation submission leaves partial state
\* behind, that is, every Profile in the store is owned by at least one
\* account.
C5_NoPartialState ==
    \A i \in 1..Len(profiles) : Owners(i) # {}

UpstreamFailures ==
    {"timeout", "transport", "http_error", "unparseable", "ok_not_object",
     "ok_no_search"}

\* C6 (as claimed): for Movie List on an owned Profile, every upstream failure
\* (timeout, transport error, non-2xx status, body not parseable, body not a
\* JSON object with a Search array) renders the Movie List page with the
\* generic error message and the requested profile uuid, after exactly one
\* outbound request; never a redirect.
C6_EveryUpstreamFailureRendersError ==
    (/\ request.view = "MovieList" /\ Authenticated /\ request.fault = "none"
     /\ \E i \in Named(profiles) : request.user \in Owners(i)
     /\ request.upstream \in UpstreamFailures)
        => /\ Rendered("movielist.html")
           /\ "error" \in DOMAIN response.context
           /\ response.context.profile_id = request.id
           /\ response.upstream = 1

\* C7 (as claimed): whatever fails at whatever step of whatever operation, the
\* request ends in a rendered page or a redirect; no exception leaves the view.
C7_NoExceptionEscapes ==
    response.kind \in {"render", "redirect"}

\* C8: Profiles have pairwise distinct uuids; a Profile whose creation
\* succeeded is owned by exactly the account that created it; Profile Listing
\* shows an account exactly the Profiles it owns; Movie List by an account for
\* a Profile another account created is redirected to Profile Listing.
C8_CreatedProfilesAreDistinctAndPrivate ==
    /\ \A i, j \in 1..Len(profiles) :
          i # j => profiles[i].uuid # profiles[j].uuid
    /\ \A i \in 1..Len(profiles) :
          creator[i] # NoAccount => Owners(i) = {creator[i]}
    /\ (request.view = "ProfileList" /\ Authenticated /\ request.fault = "none")
          => /\ Rendered("profilelist.html")
             /\ LET shown == response.context.profiles
                    owned == {i \in 1..Len(profiles) : request.user \in Owners(i)}
                IN  /\ Len(shown) = Cardinality(owned)
                    /\ {shown[k] : k \in 1..Len(shown)} = {profiles[i] : i \in owned}
    /\ (/\ request.view = "MovieList" /\ Authenticated
        /\ \E i \in Named(profiles) : creator[i] \in Accounts \ {request.user})
          => RedirectedTo("profile-list")

C8_Witness ==
    /\ Len(profiles) = 2
    /\ creator[1] = "a1" /\ creator[2] = "a2"
    /\ request.view = "ProfileList" /\ request.user = "a1" /\ request.fault = "none"
    /\ Rendered("profilelist.html")
    /\ response.context.profiles = <<profiles[1]>>

\* C9: Playback of an existing Title by an authenticated account renders one
\* record per Video attached to that Title and no other, each the Video's
\* stored row, in storage (pk) order; it changes no Title, Video, Profile or
\* account record.
C9_PlaybackListsAttachedVideos ==
    /\ [](\A m \in 1..Len(movies) :
            (/\ request.view = "PlayMovie" /\ Authenticated
             /\ request.fault = "none" /\ movies[m].uuid = request.id)
              => /\ Rendered("playmovie.html")
                 /\ LET attached == {v \in 1..Len(videos) : <<m, v>> \in movie_video}
                        out == response.context.movie
                    IN  /\ Len(out) = Cardinality(attached)
                        /\ \A k \in 1..Len(out) :
                              \E v \in attached : out[k] = videos[v]
                        /\ \A j, k \in 1..Len(out) :
                              j < k => out[j].pk < out[k].pk)
    /\ [][request'.view = "PlayMovie"
            => UNCHANGED <<profiles, user_profiles, movies, videos, movie_video>>]_vars

C9_Witness ==
    /\ request.view = "PlayMovie" /\ Authenticated /\ request.id = "m1"
    /\ request.fault = "none"
    /\ Rendered("playmovie.html")
    /\ response.context.movie = <<videos[1], videos[3]>>

\* C10: Title Detail and Playback depend on authentication and the Title's
\* existence only: for an authenticated account and an existing Title the
\* page of that Title is rendered whatever Profiles the account owns and
\* whatever the Title's age-category; otherwise the answer is the login
\* redirect (no session) or the redirect to Profile Listing.
C10_TitleViewsIgnoreProfilesAndAge ==
    \A v \in {"MovieDetail", "PlayMovie"} :
        request.view = v =>
            LET template == IF v = "MovieDetail" THEN "moviedetail.html"
                            ELSE "playmovie.html"
            IN  IF ~Authenticated THEN RedirectedTo("login")
                ELSE IF Named(movies) # {} /\ request.fault = "none"
                THEN /\ Rendered(template)
                     /\ v = "MovieDetail"
                           => \E m \in Named(movies) : response.context.movie = movies[m]
                ELSE RedirectedTo("profile-list")

C10_Witness ==
    /\ request.view = "MovieDetail" /\ Authenticated /\ request.id = "m1"
    /\ movies[1].age_limit = "All"
    /\ \E i \in 1..Len(profiles) : request.user \in Owners(i)
    /\ \A i \in 1..Len(profiles) :
          request.user \in Owners(i) => profiles[i].age_limit = "Kids"
    /\ Rendered("moviedetail.html")

====
